---- MODULE Spec2Model ----
(* ModelToValibot (src/src/model/model-to-valibot.ts).                      *)
(*                                                                          *)
(* Text is a sequence of tokens.  The tokens "(", ")", ",", "\n", " " and   *)
(* "v.pipe" are the ones the code itself inspects (the regular expression,  *)
(* split(',') and trim() of Transform); every other token is a run of       *)
(* characters none of those operations looks into.  " " is a run of spaces. *)
EXTENDS Integers, Sequences, FiniteSets, TLC

VARIABLES
    reference_map,  \* Map<string, TSchema>, line 365: name -> the object (its heap id; 0: an object off the heap)
    recursive_set,  \* Set<string>, line 366
    emitted_set,    \* Set<string>, line 367
    settings,       \* ModelToValibotSettings, line 368
    pc,             \* "idle" | "units" | "returned" | "raised": position of Generate
    model,          \* argument of the running call: [heap, types]
    options,        \* argument of the running call: [exactOptionalPropertyTypes]
    index,          \* position of the for loop of line 379 in the filtered types
    buffer,         \* const buffer: string[] of line 378
    result,         \* the text Generate returned, or the error it raised
    trace           \* history: what the last unit did, and the module state at call entry

vars == <<reference_map, recursive_set, emitted_set, settings, pc, model, options,
          index, buffer, result, trace>>

\* ------------------------------------------------------------------ bounds
\* Longest model.types sequence drawn for a Generate call of the catalogue.
MaxTypes == 2
\* Depth of nested Visit frames the engine's call stack holds before it raises
\* RangeError.  Larger than the nesting of every acyclic graph of the model.
MaxStack == 8
\* Largest numeric facet value drawn for a String node.
MaxFacet == 1

\* ------------------------------------------------------------- JS values
\* The value undefined of a string-valued field.
Undefined == "<undefined>"

\* IsDefined: a numeric facet is <<>> (undefined) or <<n>>.
IsDefined(value) == value # <<>>

\* ------------------------------------------------------------------- text
RECURSIVE Join(_, _)
\* Array.prototype.join: the elements of parts with sep between them.
Join(parts, sep) ==
    IF Len(parts) = 0 THEN <<>>
    ELSE IF Len(parts) = 1 THEN parts[1]
    ELSE parts[1] \o sep \o Join(Tail(parts), sep)

IsSpace(tok) == tok \in {" ", "\n"}

RECURSIVE TrimStart(_)
TrimStart(text) ==
    IF Len(text) > 0 /\ IsSpace(text[1]) THEN TrimStart(Tail(text)) ELSE text

RECURSIVE TrimEnd(_)
TrimEnd(text) ==
    IF Len(text) > 0 /\ IsSpace(text[Len(text)])
    THEN TrimEnd(SubSeq(text, 1, Len(text) - 1)) ELSE text

\* String.prototype.trim
Trim(text) == TrimEnd(TrimStart(text))

RECURSIVE Split(_, _)
\* String.prototype.split(sep) for a one-token separator.
Split(text, sep) ==
    IF \A i \in 1..Len(text) : text[i] # sep THEN <<text>>
    ELSE LET i == CHOOSE k \in 1..Len(text) :
                      text[k] = sep /\ \A j \in 1..(k - 1) : text[j] # sep
         IN <<SubSeq(text, 1, i - 1)>> \o Split(SubSeq(text, i + 1, Len(text)), sep)

\* A number as the template literal `${n}` prints it.
Num(n) == <<ToString(n)>>

Call(name, arg) == <<name, "(">> \o arg \o <<")">>

CommaSpace == <<",", " ">>

\* --------------------------------------------------------------- Type()
\* A null parameter and an empty one print the same text: both are <<>>.
Type(type, parameter, constraints) ==
    IF Len(constraints) > 0
    THEN Call("v.pipe", Call(type, parameter) \o CommaSpace \o Join(constraints, CommaSpace))
    ELSE Call(type, parameter)

UnsupportedType == <<"v.any", "(", "/* unsupported */", ")">>

\* ---------------------------------------------------------- String rules
\* pattern.replace(/\//g, '\\/'): a pattern is a sequence of tokens, "/" one of them.
EscapeSlashes(pattern) ==
    [i \in 1..Len(pattern) |-> IF pattern[i] = "/" THEN "\\/" ELSE pattern[i]]

getLengthConstraintsMinFirst(minLength, maxLength) ==
    (IF IsDefined(minLength) THEN <<Call("v.minLength", Num(minLength[1]))>> ELSE <<>>)
    \o (IF IsDefined(maxLength) THEN <<Call("v.maxLength", Num(maxLength[1]))>> ELSE <<>>)

getLengthConstraints(minLength, maxLength) ==
    (IF IsDefined(maxLength) THEN <<Call("v.maxLength", Num(maxLength[1]))>> ELSE <<>>)
    \o (IF IsDefined(minLength) THEN <<Call("v.minLength", Num(minLength[1]))>> ELSE <<>>)

\* `if (pattern)`: undefined and '' are both falsy, both <<>>.
getPatternConstraints(pattern) ==
    IF pattern # <<>>
    THEN <<Call("v.regex", <<"/">> \o EscapeSlashes(pattern) \o <<"/">>)>>
    ELSE <<>>

\* formatMap, lines 163-173
formatMap ==
    [f \in {"date-time", "email", "uri", "url", "uuid", "date", "time", "ipv4", "ipv6"} |->
        CASE f = "date-time" -> <<"v.isoTimestamp", "(", ")">>
          [] f = "email" -> <<"v.email", "(", ")">>
          [] f = "uri" -> <<"v.url", "(", ")">>
          [] f = "url" -> <<"v.url", "(", ")">>
          [] f = "uuid" -> <<"v.uuid", "(", ")">>
          [] f = "date" -> <<"v.isoDate", "(", ")">>
          [] f = "time" -> <<"v.isoTime", "(", ")">>
          [] f = "ipv4" -> <<"v.ipv4", "(", ")">>
          [] f = "ipv6" -> <<"v.ipv6", "(", ")">>]

\* null is <<>>.  `!format` holds of undefined and of ''.
getFormatValidator(format) ==
    IF format = Undefined \/ format = "" THEN <<>>
    ELSE IF format \in DOMAIN formatMap THEN formatMap[format] ELSE <<>>

createStringValidatorWithFormat(formatValidator, constraintsStr) ==
    IF formatValidator # <<>>
    THEN IF constraintsStr # <<>>
         THEN Call("v.pipe", <<"v.string", "(", ")">> \o CommaSpace \o formatValidator
                                \o CommaSpace \o constraintsStr)
         ELSE Call("v.pipe", <<"v.string", "(", ")">> \o CommaSpace \o formatValidator)
    ELSE IF constraintsStr # <<>>
         THEN Call("v.pipe", <<"v.string", "(", ")">> \o CommaSpace \o constraintsStr)
         ELSE <<"v.string", "(", ")">>

processStringSchema(format, pattern, minLength, maxLength) ==
    LET constraints == getLengthConstraints(minLength, maxLength)
                           \o getPatternConstraints(pattern)
        formatValidator == getFormatValidator(format)
        constraintsStr == IF Len(constraints) > 0 THEN Join(constraints, CommaSpace) ELSE <<>>
    IN createStringValidatorWithFormat(formatValidator, constraintsStr)

\* ----------------------------------------------------------- schema nodes
\* A TSchema object.  Children are heap ids (object identity: the same id is
\* the same JavaScript object); child 0 is a fresh Types.Any() object.
\* kind is the node's [Kind]; "NotSchema" is an entry of model.types that
\* TypeGuard.IsSchema rejects and "Custom" a schema of a kind no guard of
\* lines 299-325 accepts.  transform is <<>> or <<[Decode, Encode]>>: Decode
\* is the class of the value Decode(1) returns ("throws": it raises), Encode
\* the token Encode.toString() prints.
Schema(kind) ==
    [kind |-> kind, id |-> Undefined, optional |-> FALSE, transform |-> <<>>,
     items |-> <<>>, itemsDefined |-> TRUE, properties |-> <<>>,
     patternProperties |-> <<>>, anyOf |-> <<>>, allOf |-> <<>>, ref |-> Undefined,
     const |-> <<>>, minimum |-> <<>>, maximum |-> <<>>, exclusiveMinimum |-> <<>>,
     exclusiveMaximum |-> <<>>, minItems |-> <<>>, maxItems |-> <<>>,
     minLength |-> <<>>, maxLength |-> <<>>, pattern |-> <<>>, format |-> Undefined]

Deref(heap, child) == IF child = 0 THEN Schema("Any") ELSE heap[child]

IsTransform(schema) == schema.transform # <<>>

IsOptional(schema) == schema.optional

\* TypeGuard.IsSchema, line 379
IsSchema(value) == value.kind # "NotSchema"

\* Map.prototype.set
MapSet(map, key, value) ==
    [k \in DOMAIN map \cup {key} |-> IF k = key THEN value ELSE map[k]]

Range(seq) == {seq[i] : i \in 1..Len(seq)}

\* PropertyEncoder.Encode (../common): an identifier as it is, any other key quoted.
PropertyEncode(key) == IF key \in {"Page", "OptionalPage", "a", "b", "r", "self"}
                       THEN <<key>> ELSE <<"'", key, "'">>

\* The key pattern of a numeric Record, line 213.
NumericKeyPattern == <<"^", "(", "0|[1-9][0-9]*", ")", "$">>

\* ---------------------------------------------------------------- results
\* What a call of Visit leaves: its text, the state it threads (reference_map and
\* the history of the unit) and the error it raised ("" when it returned).
Ok(text, st) == [text |-> text, st |-> st, err |-> ""]

Raise(st, err) == [text |-> <<>>, st |-> st, err |-> err]

\* ------------------------------------------------------------- leaf rules
NumberConstraints(schema) ==
    (IF IsDefined(schema.minimum) THEN <<Call("v.minValue", Num(schema.minimum[1]))>> ELSE <<>>)
    \o (IF IsDefined(schema.maximum) THEN <<Call("v.maxValue", Num(schema.maximum[1]))>> ELSE <<>>)
    \o (IF IsDefined(schema.exclusiveMinimum)
        THEN <<Call("v.minValue", Num(schema.exclusiveMinimum[1] + 1))>> ELSE <<>>)
    \o (IF IsDefined(schema.exclusiveMaximum)
        THEN <<Call("v.maxValue", Num(schema.exclusiveMaximum[1] - 1))>> ELSE <<>>)

Integer(schema) == Type("v.number", <<>>, <<<<"v.integer", "(", ")">>>> \o NumberConstraints(schema))

Number(schema) == Type("v.number", <<>>, NumberConstraints(schema))

\* const is [isString, text]
Literal(schema) ==
    IF schema.const.isString
    THEN Type("v.literal", <<"'", schema.const.text, "'">>, <<>>)
    ELSE Type("v.literal", <<schema.const.text>>, <<>>)

String(schema) ==
    processStringSchema(schema.format, schema.pattern, schema.minLength, schema.maxLength)

TemplateLiteral(schema) ==
    Type("v.string", <<>>, <<Type("v.regex", <<"/">> \o schema.pattern \o <<"/">>, <<>>)>>)

Ref(schema, st) ==
    LET had == schema.ref \in DOMAIN st.refs
        text == IF ~had THEN UnsupportedType ELSE <<schema.ref>>
    IN Ok(text, [st EXCEPT !.log = @ \cup {[ref |-> schema.ref, had |-> had, text |-> text]}])

\* typeof value, for the classes of value Decode(1) returns
TypeOf(class) ==
    CASE class \in {"string", "number", "boolean", "undefined", "function", "bigint", "symbol"}
            -> class
      [] class \in {"array", "mapping", "null"} -> "object"

TypeToSchema(type) ==
    CASE type = "string" -> Schema("String")
      [] type = "number" -> Schema("Number")
      [] type = "boolean" -> Schema("Boolean")
      [] type = "array" -> [Schema("Array") EXCEPT !.items = <<0>>]
      [] type = "object" -> Schema("Object")
      [] OTHER -> Schema("Any")

\* ------------------------------------------------ toStr.match(/v\.pipe\s*\((.*)\)/)
\* The matches as <<start, close>>: "v.pipe" at start, \s*, "(", then (.*) up to the
\* ")" at close; "." matches no line break.
PipeMatches(text) ==
    {p \in (1..Len(text)) \X (1..Len(text)) :
        /\ text[p[1]] = "v.pipe"
        /\ text[p[2]] = ")"
        /\ \E open \in (p[1] + 1)..(p[2] - 1) :
               /\ text[open] = "("
               /\ \A m \in (p[1] + 1)..(open - 1) : IsSpace(text[m])
               /\ \A m \in (open + 1)..(p[2] - 1) : text[m] # "\n"}

\* match[1] of the match <<start, close>>
PipeGroup(text, p) ==
    SubSeq(text, (CHOOSE open \in (p[1] + 1)..(p[2] - 1) :
                      text[open] = "(" /\ \A m \in (p[1] + 1)..(open - 1) : IsSpace(text[m])) + 1,
           p[2] - 1)

\* {} when there is no match, else {match[1]}: the leftmost match, (.*) greedy.
MatchPipe(text) ==
    {PipeGroup(text, p) : p \in {p \in PipeMatches(text) :
        \A q \in PipeMatches(text) : p[1] < q[1] \/ (p[1] = q[1] /\ p[2] >= q[2])}}

\* Lines 276-284: the stages taken from the target's text.
SplitTrim(text) == [i \in 1..Len(Split(text, ",")) |-> Trim(Split(text, ",")[i])]

TransformConstraints(toStr) ==
    IF MatchPipe(toStr) # {}
    THEN SplitTrim(CHOOSE group \in MatchPipe(toStr) : TRUE)
    ELSE <<Trim(toStr)>>

FailedDecode == <<"v.any", "(", "/* failed to convert from Decode function */", ")">>

\* Lines 287-291
TransformText(fromStr, transformCallback, constraints) ==
    <<"v.pipe", "(", "\n", " ">> \o fromStr \o <<",", "\n", " ">>
        \o Call("v.transform", <<transformCallback>>) \o <<",", "\n", " ">>
        \o Join(constraints, CommaSpace) \o <<"\n", " ", ")">>

\* ------------------------------------------------------------------ Visit
\* ctx is what a unit's visit reads and does not change: [heap, emitted, exact]
\* (the model's objects, emitted_set, settings.exactOptionalPropertyTypes).
\* st is what it changes: [refs, log, reexp] (reference_map; the Ref calls made;
\* whether a node's body was entered while a frame of the same node was open).
\* path holds the nodes of the open Visit frames, self the node visited (0: an
\* object that is no node of the heap).
RECURSIVE Visit(_, _, _, _, _)
RECURSIVE VisitAll(_, _, _, _)

\* schemas.map((schema) => Visit(schema)): left to right, ending at the first raise.
VisitAll(children, st, path, ctx) ==
    IF children = <<>> THEN [texts |-> <<>>, st |-> st, err |-> ""]
    ELSE LET r == Visit(Deref(ctx.heap, children[1]), children[1], st, path, ctx)
         IN IF r.err # "" THEN [texts |-> <<>>, st |-> r.st, err |-> r.err]
            ELSE LET rest == VisitAll(Tail(children), r.st, path, ctx)
                 IN [texts |-> <<r.text>> \o rest.texts, st |-> rest.st, err |-> rest.err]

Array(schema, st, path, ctx) ==
    LET items == VisitAll(schema.items, st, path, ctx)
        constraints ==
            (IF IsDefined(schema.minItems)
             THEN <<Call("v.minLength", Num(schema.minItems[1]))>> ELSE <<>>)
            \o (IF IsDefined(schema.maxItems)
                THEN <<Call("v.maxLength", Num(schema.maxItems[1]))>> ELSE <<>>)
    IN IF items.err # "" THEN Raise(items.st, items.err)
       ELSE Ok(Type("v.array", items.texts[1], constraints), items.st)

Intersect(schema, st, path, ctx) ==
    LET inner == VisitAll(schema.allOf, st, path, ctx)
    IN IF inner.err # "" THEN Raise(inner.st, inner.err)
       ELSE Ok(Type("v.intersect", <<"[">> \o Join(inner.texts, CommaSpace) \o <<"]">>, <<>>),
               inner.st)

Union(schema, st, path, ctx) ==
    LET inner == VisitAll(schema.anyOf, st, path, ctx)
    IN IF inner.err # "" THEN Raise(inner.st, inner.err)
       ELSE Ok(Type("v.union", <<"[">> \o Join(inner.texts, CommaSpace) \o <<"]">>, <<>>),
               inner.st)

Tuple(schema, st, path, ctx) ==
    IF ~schema.itemsDefined THEN Ok(<<"[", "]">>, st)
    ELSE LET items == VisitAll(schema.items, st, path, ctx)
         IN IF items.err # "" THEN Raise(items.st, items.err)
            ELSE Ok(Type("v.tuple", <<"[">> \o Join(items.texts, CommaSpace) \o <<"]">>, <<>>),
                    items.st)

\* properties is the ordered list of Object.entries: [key, value]
Object(schema, st, path, ctx) ==
    LET entries == schema.properties
        values == VisitAll([i \in 1..Len(entries) |-> entries[i].value], st, path, ctx)
        property(i) ==
            LET optional == IsOptional(Deref(ctx.heap, entries[i].value))
                name == PropertyEncode(entries[i].key)
            IN IF optional
               THEN IF ctx.exact
                    THEN name \o <<":", " ">> \o Call("v.exactOptional", values.texts[i])
                    ELSE name \o <<":", " ">> \o Call("v.optional", values.texts[i])
               ELSE name \o <<":", " ">> \o values.texts[i]
    IN IF values.err # "" THEN Raise(values.st, values.err)
       ELSE Ok(Type("v.object",
                    <<"{", "\n">> \o Join([i \in 1..Len(entries) |-> property(i)], <<",">>)
                        \o <<"\n", "}">>,
                    <<>>),
               values.st)

\* patternProperties is the ordered list of Object.entries: [key, value].  The
\* loop returns in its first round; with no entry line 219 throws.
Record(schema, st, path, ctx) ==
    IF schema.patternProperties = <<>> THEN Raise(st, "Unreachable")
    ELSE LET key == schema.patternProperties[1].key
             type == Visit(Deref(ctx.heap, schema.patternProperties[1].value),
                           schema.patternProperties[1].value, st, path, ctx)
         IN IF type.err # "" THEN type
            ELSE IF key = NumericKeyPattern
            THEN Ok(Type("v.record", <<"v.number", "(", ")">> \o CommaSpace \o type.text, <<>>),
                    type.st)
            ELSE Ok(Type("v.record",
                         processStringSchema(Undefined, key, <<>>, <<>>) \o CommaSpace
                             \o type.text, <<>>),
                    type.st)

\* The source shape, lines 257-269: the try block and its catch.
TransformFrom(schema, st, path, ctx) ==
    LET Decode == schema.transform[1].Decode
    IN IF Decode = "throws" THEN Ok(FailedDecode, st)
       ELSE LET r == Visit(TypeToSchema(TypeOf(Decode)), 0, st, path, ctx)
            IN IF r.err # "" THEN Ok(FailedDecode, r.st) ELSE r

Transform(schema, st, path, ctx) ==
    LET newSchema == [schema EXCEPT !.transform = <<>>]
        from == TransformFrom(schema, st, path, ctx)
        transformCallback == schema.transform[1].Encode
        to == Visit(newSchema, 0, from.st, path, ctx)
    IN IF to.err # "" THEN to
       ELSE Ok(TransformText(from.text, transformCallback, TransformConstraints(to.text)),
               to.st)

Visit(schema, self, st, path, ctx) ==
    IF Len(path) >= MaxStack THEN Raise(st, "RangeError")
    ELSE
    LET st1 == IF schema.id # Undefined
               THEN [st EXCEPT !.refs = MapSet(@, schema.id, self)] ELSE st
        st2 == [st1 EXCEPT !.reexp = @ \/ (self # 0 /\ self \in Range(path))]
        open == Append(path, self)
    IN IF schema.id # Undefined /\ schema.id \in ctx.emitted THEN Ok(<<schema.id>>, st1)
       ELSE IF IsTransform(schema) THEN Transform(schema, st2, open, ctx)
       ELSE CASE schema.kind = "Any" -> Ok(Type("v.any", <<>>, <<>>), st2)
              [] schema.kind = "Array" -> Array(schema, st2, open, ctx)
              [] schema.kind = "BigInt" -> Ok(Type("v.bigint", <<>>, <<>>), st2)
              [] schema.kind = "Boolean" -> Ok(Type("v.boolean", <<>>, <<>>), st2)
              [] schema.kind = "Date" -> Ok(Type("v.date", <<>>, <<>>), st2)
              [] schema.kind = "Constructor" -> Ok(UnsupportedType, st2)
              [] schema.kind = "Function" -> Ok(UnsupportedType, st2)
              [] schema.kind = "Integer" -> Ok(Integer(schema), st2)
              [] schema.kind = "Intersect" -> Intersect(schema, st2, open, ctx)
              [] schema.kind = "Literal" -> Ok(Literal(schema), st2)
              [] schema.kind = "Never" -> Ok(Type("v.never", <<>>, <<>>), st2)
              [] schema.kind = "Null" -> Ok(Type("v.null", <<>>, <<>>), st2)
              [] schema.kind = "Number" -> Ok(Number(schema), st2)
              [] schema.kind = "Object" -> Object(schema, st2, open, ctx)
              [] schema.kind = "Promise" -> Ok(UnsupportedType, st2)
              [] schema.kind = "Record" -> Record(schema, st2, open, ctx)
              [] schema.kind = "Ref" -> Ref(schema, st2)
              [] schema.kind = "String" -> Ok(String(schema), st2)
              [] schema.kind = "TemplateLiteral" -> Ok(TemplateLiteral(schema), st2)
              [] schema.kind = "This" -> Ok(UnsupportedType, st2)
              [] schema.kind = "Tuple" -> Tuple(schema, st2, open, ctx)
              [] schema.kind = "Uint8Array" -> Ok(UnsupportedType, st2)
              [] schema.kind = "Undefined" -> Ok(Type("v.undefined", <<>>, <<>>), st2)
              [] schema.kind = "Union" -> Union(schema, st2, open, ctx)
              [] schema.kind = "Unknown" -> Ok(Type("v.unknown", <<>>, <<>>), st2)
              [] schema.kind = "Void" -> Ok(Type("v.void", <<>>, <<>>), st2)
              [] OTHER -> Ok(UnsupportedType, st2)

\* [...Visit(schema)].join(``): the text taken apart and put together again.
Collect(schema, self, st, ctx) == Visit(schema, self, st, <<>>, ctx)

\* ----------------------------------------------------------- GenerateType
\* Formatter.Format (../common): the layout of its input does not reach its
\* output; the tokens do, in their order.
Format(text) == SelectSeq(text, LAMBDA tok : ~IsSpace(tok))

\* ModelToTypeScript.GenerateType (./model-to-typescript): the plain type
\* declaration of the named type.
PlainTypeDeclaration(id) == <<"type", " ", id, " ", "=", " ", "/* plain type */">>

\* `${schema.$id}`
IdText(id) == IF id = Undefined THEN "undefined" ELSE id

\* `schema.$id || 'T'`, and `if (schema.$id)`: undefined and '' are falsy
Truthy(id) == id # Undefined /\ id # ""

RECURSIVE SetReferences(_, _, _)
SetReferencesNone(refs, heap, references) == refs

\* reference_map.set(reference.$id, reference) for each of references, line 352
SetReferences(refs, heap, references) ==
    IF references = <<>> THEN refs
    ELSE SetReferences(MapSet(refs, heap[references[1]].id, references[1]),
                       heap, Tail(references))

\* The first of references whose $id is undefined (line 351), or 0.
FirstUnnamed(heap, references) ==
    LET unnamed == {k \in 1..Len(references) : heap[references[k]].id = Undefined}
    IN IF unnamed = {} THEN 0 ELSE CHOOSE k \in unnamed : \A j \in unnamed : k <= j

NonRecursiveLines(schema, type) ==
    <<"export", " ", "type", " ", IdText(schema.id), " ", "=", " ", "v.InferOutput", "<",
      "typeof", " ", IdText(schema.id), ">">>
    \o <<"\n">>
    \o <<"export", " ", "const", " ", IF Truthy(schema.id) THEN schema.id ELSE "T", " ", "=", " ">>
    \o Format(type)

RecursiveLines(schema, type) ==
    <<"export", " ">> \o PlainTypeDeclaration(schema.id)
    \o <<"\n">>
    \o <<"export", " ", "const", " ", IF Truthy(schema.id) THEN schema.id ELSE "T", ":", " ",
         "v.InferOutput", "<", IdText(schema.id), ">", " ", "=", " ", "v.lazy", "(", "(", ")",
         " ", "=>", " ">>
    \o Format(type) \o <<")">>

OutputLinesAlwaysLazy(schema, type, recursive) == RecursiveLines(schema, type)

OutputLinesValueFirst(schema, type, recursive) ==
    <<"export", " ", "const", " ", IF Truthy(schema.id) THEN schema.id ELSE "T", " ", "=", " ">>
    \o Format(type)
    \o <<"\n">>
    \o <<"export", " ", "type", " ", IdText(schema.id), " ", "=", " ", "v.InferOutput", "<",
         "typeof", " ", IdText(schema.id), ">">>

\* Lines 355-363: the two lines of the unit, joined.
OutputLines(schema, type, recursive) ==
    IF schema.id \in recursive
    THEN RecursiveLines(schema, type)
    ELSE NonRecursiveLines(schema, type)

NoUnit == [visited |-> FALSE, names |-> {}, log |-> {}, reexp |-> FALSE, lazy |-> FALSE,
           self |-> 0]

\* state is the module state [refs, recursive, emitted, exact]; self is the entry
\* of mdl.types the unit is for.  Returns the unit's text, the module state it
\* leaves, the error it raised and the history of the unit.
GenerateType(mdl, self, state) ==
    LET heap == mdl.heap
        schema == heap[self]
        references == mdl.types
        k == FirstUnnamed(heap, references)
    IN IF k # 0
       THEN [text |-> UnsupportedType,
             state |-> [state EXCEPT
                          !.refs = SetReferences(@, heap, SubSeq(references, 1, k - 1))],
             err |-> "",
             unit |-> [NoUnit EXCEPT !.self = self]]
       ELSE LET refs == SetReferences(state.refs, heap, references)
                type == Collect(schema, self, [refs |-> refs, log |-> {}, reexp |-> FALSE],
                                [heap |-> heap, emitted |-> state.emitted,
                                 exact |-> state.exact])
                unit == [visited |-> TRUE, names |-> DOMAIN refs, log |-> type.st.log,
                         reexp |-> type.st.reexp,
                         lazy |-> schema.id \in state.recursive, self |-> self]
            IN IF type.err # ""
               THEN [text |-> <<>>, state |-> [state EXCEPT !.refs = type.st.refs],
                     err |-> type.err, unit |-> unit]
               ELSE [text |-> OutputLines(schema, type.text, state.recursive),
                     state |-> [state EXCEPT
                                  !.refs = type.st.refs,
                                  !.emitted = IF Truthy(schema.id)
                                              THEN @ \cup {schema.id} ELSE @],
                     err |-> "",
                     unit |-> unit]

\* --------------------------------------------------------------- Generate
Preamble == <<"import", " ", "*", " ", "as", " ", "v", " ", "from", " ", "'valibot'">>

\* model.types.filter((type) => Types.TypeGuard.IsSchema(type)), line 379
Filtered(mdl) == SelectSeq(mdl.types, LAMBDA t : IsSchema(mdl.heap[t]))

ResetKeepsEmitted(state, opts) ==
    [refs |-> <<>>, recursive |-> {}, emitted |-> state.emitted,
     exact |-> opts.exactOptionalPropertyTypes]

\* Lines 374-377
Reset(state, opts) ==
    [refs |-> <<>>, recursive |-> {}, emitted |-> {},
     exact |-> opts.exactOptionalPropertyTypes]

\* Formatter.Format(buffer.join('\n')), line 382
Return(buf) == Format(Join(buf, <<"\n">>))

ModuleState ==
    [refs |-> reference_map, recursive |-> recursive_set, emitted |-> emitted_set,
     exact |-> settings.exactOptionalPropertyTypes]

\* The module state as lines 365-370 construct it.
Constructed == [refs |-> <<>>, recursive |-> {}, emitted |-> {}, exact |-> FALSE]

NoResult == [kind |-> "none", text |-> <<>>, error |-> ""]

NoModel == [heap |-> <<>>, types |-> <<>>]

Init ==
    /\ reference_map = Constructed.refs
    /\ recursive_set = Constructed.recursive
    /\ emitted_set = Constructed.emitted
    /\ settings = [exactOptionalPropertyTypes |-> Constructed.exact]
    /\ pc = "idle"
    /\ model = NoModel
    /\ options = [exactOptionalPropertyTypes |-> FALSE]
    /\ index = 0
    /\ buffer = <<>>
    /\ result = NoResult
    /\ trace = [dirty |-> FALSE, unit |-> NoUnit]

\* Generate is entered: lines 374-378.  A call starts when no call is running.
GenerateEnter(mdl, opts) ==
    /\ pc \in {"idle", "returned", "raised"}
    /\ LET state == Reset(ModuleState, opts)
       IN /\ reference_map' = state.refs
          /\ recursive_set' = state.recursive
          /\ emitted_set' = state.emitted
          /\ settings' = [exactOptionalPropertyTypes |-> state.exact]
    /\ pc' = "units"
    /\ model' = mdl
    /\ options' = opts
    /\ index' = 1
    /\ buffer' = <<Preamble, <<>>>>
    /\ result' = NoResult
    /\ trace' = [dirty |-> ModuleState # Constructed, unit |-> NoUnit]

\* One round of the loop of lines 379-381: buffer.push(GenerateType(...)), or the
\* error GenerateType raised leaving Generate.
GenerateUnit ==
    /\ pc = "units"
    /\ index <= Len(Filtered(model))
    /\ LET r == GenerateType(model, Filtered(model)[index], ModuleState)
       IN /\ reference_map' = r.state.refs
          /\ recursive_set' = r.state.recursive
          /\ emitted_set' = r.state.emitted
          /\ settings' = [exactOptionalPropertyTypes |-> r.state.exact]
          /\ trace' = [trace EXCEPT !.unit = r.unit]
          /\ IF r.err # ""
             THEN /\ pc' = "raised"
                  /\ result' = [kind |-> "error", text |-> <<>>, error |-> r.err]
                  /\ UNCHANGED <<index, buffer>>
             ELSE /\ buffer' = Append(buffer, r.text)
                  /\ index' = index + 1
                  /\ UNCHANGED <<pc, result>>
    /\ UNCHANGED <<model, options>>

\* Line 382
GenerateReturn ==
    /\ pc = "units"
    /\ index > Len(Filtered(model))
    /\ result' = [kind |-> "text", text |-> Return(buffer), error |-> ""]
    /\ pc' = "returned"
    /\ UNCHANGED <<reference_map, recursive_set, emitted_set, settings, model, options,
                   index, buffer, trace>>

\* ----------------------------------------------------------------- inputs
Named(schema, id) == [schema EXCEPT !.id = id]

Codec(schema, Decode) == [schema EXCEPT !.transform = <<[Decode |-> Decode, Encode |-> "ENC"]>>]

Prop(key, value) == [key |-> key, value |-> value]

\* The objects of the models of Spec: 1-7 are the objects a model lists in
\* model.types, the others are reached from them.
Pool ==
    << \* 1: Types.String({ $id: 'A' })
       Named(Schema("String"), "A"),
       \* 2: Transform(Number({ minimum: 1, maximum: 50, $id: 'B' })), Decode returns a string
       Codec([Named(Schema("Number"), "B") EXCEPT !.minimum = <<1>>, !.maximum = <<50>>],
             "string"),
       \* 3: Object({ a: (1), b: (8), r: (9) }, { $id: 'C' })
       [Named(Schema("Object"), "C") EXCEPT
           !.properties = <<Prop("a", 1), Prop("b", 8), Prop("r", 9)>>],
       \* 4: String(), no $id
       Schema("String"),
       \* 5: Integer({ $id: 'A', exclusiveMinimum: 0, exclusiveMaximum: 50 }): a second object named A
       [Named(Schema("Integer"), "A") EXCEPT
           !.exclusiveMinimum = <<0>>, !.exclusiveMaximum = <<50>>],
       \* 6: an entry that is no schema
       Schema("NotSchema"),
       \* 7: a Record whose patternProperties is empty
       Named(Schema("Record"), "R"),
       \* 8: Optional(String({ maxLength: 5 }))
       [Schema("String") EXCEPT !.optional = TRUE, !.maxLength = <<5>>],
       \* 9: Ref('B')
       [Schema("Ref") EXCEPT !.ref = "B"]
    >>

Roots == 1..7

\* The objects of the models of SpecKinds: a node of every kind.  1-6 are the
\* objects a model lists in model.types.
KindPool ==
    << \* 1: Union of the leaf kinds
       [Named(Schema("Union"), "U") EXCEPT
           !.anyOf = <<7, 8, 9, 10, 11, 12, 13, 14, 15, 16, 17, 18, 19, 20, 21, 22, 23, 24,
                       25, 26>>],
       \* 2: Tuple of the composite kinds
       [Named(Schema("Tuple"), "P") EXCEPT !.items = <<27, 28, 29, 30, 31, 32>>],
       \* 3: a Record whose patternProperties is empty
       Named(Schema("Record"), "R"),
       \* 4: an Object whose property self is the object itself
       [Named(Schema("Object"), "L") EXCEPT !.properties = <<Prop("self", 4)>>],
       \* 5: an Object one of whose members is (6)
       [Named(Schema("Object"), "M") EXCEPT !.properties = <<Prop("a", 9), Prop("b", 6)>>],
       \* 6: an Array whose items is (5)
       [Named(Schema("Array"), "N") EXCEPT !.items = <<5>>],
       \* 7-26: the members of (1)
       Schema("Any"), Schema("BigInt"), Schema("Boolean"), Schema("Date"),
       Schema("Constructor"), Schema("Function"), Schema("Never"), Schema("Null"),
       Schema("Promise"), Schema("This"), Schema("Uint8Array"), Schema("Undefined"),
       Schema("Unknown"), Schema("Void"), Schema("Custom"),
       [Schema("Tuple") EXCEPT !.itemsDefined = FALSE],
       [Schema("Ref") EXCEPT !.ref = "Z"],
       [Schema("Literal") EXCEPT !.const = [isString |-> TRUE, text |-> "x"]],
       [Schema("Literal") EXCEPT !.const = [isString |-> FALSE, text |-> "1"]],
       [Schema("TemplateLiteral") EXCEPT !.pattern = <<"^a.*$">>],
       \* 27-32: the members of (2)
       [Schema("Array") EXCEPT !.items = <<33>>, !.minItems = <<1>>, !.maxItems = <<3>>],
       [Schema("Intersect") EXCEPT !.allOf = <<34, 35>>],
       [Schema("Record") EXCEPT !.patternProperties = <<Prop(NumericKeyPattern, 7)>>],
       [Schema("Record") EXCEPT !.patternProperties = <<Prop(<<"^", "a", "/", "b", "$">>, 33)>>],
       Codec(Schema("Boolean"), "throws"),
       Named(Schema("Boolean"), ""),
       \* 33: String({ pattern: 'a/b', format: 'email', minLength: 1 })
       [Schema("String") EXCEPT
           !.pattern = <<"a", "/", "b">>, !.format = "email", !.minLength = <<1>>],
       \* 34, 35: Integer({ minimum: 0 }), Number({ exclusiveMaximum: 10 })
       [Schema("Integer") EXCEPT !.minimum = <<0>>],
       [Schema("Number") EXCEPT !.exclusiveMaximum = <<10>>]
    >>

KindRoots == 1..6

RECURSIVE SeqsUpTo(_, _)
\* The sequences over S of length at most n.
SeqsUpTo(S, n) ==
    IF n = 0 THEN {<<>>}
    ELSE LET shorter == SeqsUpTo(S, n - 1)
         IN shorter \cup {Append(q, x) : q \in shorter, x \in S}

Models == {[heap |-> Pool, types |-> types] : types \in SeqsUpTo(Roots, MaxTypes)}

Options == {[exactOptionalPropertyTypes |-> exact] : exact \in BOOLEAN}

\* A caller calls Generate with a model of the catalogue.
Generate == \E mdl \in Models, opts \in Options : GenerateEnter(mdl, opts)

Next == Generate \/ GenerateUnit \/ GenerateReturn

Spec == Init /\ [][Next]_vars

KindModels == {[heap |-> KindPool, types |-> types] : types \in SeqsUpTo(KindRoots, MaxTypes)}

GenerateKinds == \E mdl \in KindModels, opts \in Options : GenerateEnter(mdl, opts)

NextKinds == GenerateKinds \/ GenerateUnit \/ GenerateReturn

SpecKinds == Init /\ [][NextKinds]_vars

\* A model of one String node, its facets set or unset.
Facets == {<<>>} \cup {<<n>> : n \in 0..MaxFacet}

Formats == {Undefined, "", "email", "uuid", "hostname"}

Patterns == {<<>>, <<"^a$">>, <<"a", "/", "b">>}

StringModels ==
    {[heap |-> <<[Named(Schema("String"), "Test") EXCEPT
                     !.format = format, !.pattern = pattern,
                     !.minLength = minLength, !.maxLength = maxLength]>>,
      types |-> <<1>>] :
        format \in Formats, pattern \in Patterns, minLength \in Facets, maxLength \in Facets}

GenerateString == \E mdl \in StringModels, opts \in Options : GenerateEnter(mdl, opts)

NextString == GenerateString \/ GenerateUnit \/ GenerateReturn

SpecString == Init /\ [][NextString]_vars

\* A model of one Transform node: what Decode(1) returns, and the target.
DecodeClasses == {"string", "number", "boolean", "array", "mapping", "null", "undefined",
                  "function", "bigint", "symbol", "throws"}

\* The targets, each at 1 of its heap with its members after it.
Targets ==
    { \* Number({ minimum: 1, maximum: 50 })
      <<[Schema("Number") EXCEPT !.minimum = <<1>>, !.maximum = <<50>>]>>,
      \* Boolean()
      <<Schema("Boolean")>>,
      \* Array(String())
      <<[Schema("Array") EXCEPT !.items = <<2>>], Schema("String")>>,
      \* Array(String(), { minItems: 1 })
      <<[Schema("Array") EXCEPT !.items = <<2>>, !.minItems = <<1>>], Schema("String")>>,
      \* Array(String({ maxLength: 5 }))
      <<[Schema("Array") EXCEPT !.items = <<2>>],
        [Schema("String") EXCEPT !.maxLength = <<5>>]>>,
      \* Array(String({ maxLength: 5 }), { minItems: 1 })
      <<[Schema("Array") EXCEPT !.items = <<2>>, !.minItems = <<1>>],
        [Schema("String") EXCEPT !.maxLength = <<5>>]>>,
      \* Object({ a: Number({ minimum: 1 }) })
      <<[Schema("Object") EXCEPT !.properties = <<Prop("a", 2)>>],
        [Schema("Number") EXCEPT !.minimum = <<1>>]>>,
      \* Object({ a: String() })
      <<[Schema("Object") EXCEPT !.properties = <<Prop("a", 2)>>], Schema("String")>>,
      \* String({ maxLength: 5, minLength: 1, format: 'email' })
      <<[Schema("String") EXCEPT
            !.maxLength = <<5>>, !.minLength = <<1>>, !.format = "email"]>> }

TransformModels ==
    {[heap |-> [target EXCEPT ![1] = Codec(Named(@, "Test"), Decode)], types |-> <<1>>] :
        target \in Targets, Decode \in DecodeClasses}

GenerateTransform == \E mdl \in TransformModels, opts \in Options : GenerateEnter(mdl, opts)

NextTransform == GenerateTransform \/ GenerateUnit \/ GenerateReturn

SpecTransform == Init /\ [][NextTransform]_vars

\* ------------------------------------------------------------------ claims
RECURSIVE RunUnits(_, _, _, _)
\* The loop of lines 379-382 run to its end from a given module state.
RunUnits(mdl, i, state, buf) ==
    IF i > Len(Filtered(mdl)) THEN [kind |-> "text", text |-> Return(buf), error |-> ""]
    ELSE LET r == GenerateType(mdl, Filtered(mdl)[i], state)
         IN IF r.err # "" THEN [kind |-> "error", text |-> <<>>, error |-> r.err]
            ELSE RunUnits(mdl, i + 1, r.state, Append(buf, r.text))

\* What Generate(mdl, opts) gives as the first call after the module is loaded.
FirstCall(mdl, opts) ==
    RunUnits(mdl, 1, [Constructed EXCEPT !.exact = opts.exactOptionalPropertyTypes],
             <<Preamble, <<>>>>)

Finished == pc \in {"returned", "raised"}

\* The names of the entries of model.types.
ModelNames(mdl) ==
    {mdl.heap[mdl.types[k]].id : k \in 1..Len(mdl.types)} \ {Undefined}

AllNamed(mdl) == \A k \in 1..Len(mdl.types) : mdl.heap[mdl.types[k]].id # Undefined

\* unit is the type-alias declaration of id, a line break, and a value declaration.
IsDeclarationUnit(unit, id) ==
    LET head == <<"export", " ", "type", " ", id, " ", "=", " ", "v.InferOutput", "<",
                  "typeof", " ", id, ">", "\n", "export", " ", "const", " ",
                  IF id = "" THEN "T" ELSE id, " ", "=", " ">>
    IN Len(unit) > Len(head) /\ SubSeq(unit, 1, Len(head)) = head

\* C1: the text (or the error) a Generate call ends with is the one the same call
\* gives as the first call of a freshly loaded module, whatever calls came before,
\* and when the first unit is about to be generated the reference table, the
\* emission memo and the recursive-name set are empty and the settings are the
\* call's options.
C1_CallsIndependent ==
    /\ (pc = "units" /\ index = 1) =>
           ModuleState = [Constructed EXCEPT !.exact = options.exactOptionalPropertyTypes]
    /\ Finished => result = FirstCall(model, options)

\* A call that returned units and was entered with the module state left by an
\* earlier call.
C1_Witness == pc = "returned" /\ trace.dirty /\ emitted_set # {} /\ Len(buffer) > 2

\* C2: in the text a Generate call returns no name has two `export const`
\* declarations.
C2_OneDeclarationPerName ==
    pc = "returned" =>
        \A i, j \in 1..(Len(result.text) - 2) :
            (/\ result.text[i] = "export" /\ result.text[i + 1] = "const"
             /\ result.text[j] = "export" /\ result.text[j + 1] = "const"
             /\ result.text[i + 2] = result.text[j + 2]) => i = j

\* C3 as stated: the output is the preamble and one unit per entry that passes the
\* schema filter, in model order, and the unit of every named entry is its
\* type-alias declaration followed by its value declaration.
C3_NamedEntryDeclared ==
    pc = "returned" =>
        /\ result.text = Format(Join(buffer, <<"\n">>))
        /\ Len(buffer) = 2 + Len(Filtered(model))
        /\ buffer[1] = Preamble /\ buffer[2] = <<>>
        /\ \A k \in 1..Len(Filtered(model)) :
               model.heap[Filtered(model)[k]].id # Undefined =>
                   IsDeclarationUnit(buffer[k + 2], model.heap[Filtered(model)[k]].id)

\* C3 amended: the output is the preamble and one unit per entry that passes the
\* schema filter, in model order; when every entry of model.types carries a name
\* the unit of each is its type-alias declaration followed by its value
\* declaration, and when some entry of model.types (a schema or not) carries none
\* every unit is the unsupported sentinel.
C3_UnitPerEntry ==
    pc = "returned" =>
        /\ result.text = Format(Join(buffer, <<"\n">>))
        /\ Len(buffer) = 2 + Len(Filtered(model))
        /\ buffer[1] = Preamble /\ buffer[2] = <<>>
        /\ \A k \in 1..Len(Filtered(model)) :
               IF AllNamed(model)
               THEN IsDeclarationUnit(buffer[k + 2], model.heap[Filtered(model)[k]].id)
               ELSE buffer[k + 2] = UnsupportedType

\* A call that returned the declarations of two different named entries.
C3_Witness ==
    /\ pc = "returned" /\ AllNamed(model) /\ Len(Filtered(model)) = 2
    /\ model.heap[model.types[1]].id # model.heap[model.types[2]].id

\* C4: every unit Visit produced is a non-empty text, and a Generate call raises
\* only the error of a Record without key patterns.
C4_OnlyRecordRaises ==
    /\ \A k \in 3..Len(buffer) : buffer[k] # <<>>
    /\ pc = "raised" =>
           /\ result.error = "Unreachable"
           /\ \E n \in 1..Len(model.heap) :
                  model.heap[n].kind = "Record" /\ model.heap[n].patternProperties = <<>>

\* The text of the target of the Transform node at 1 of mdl, visited on its own.
TargetText(mdl, opts) ==
    Visit([mdl.heap[1] EXCEPT !.transform = <<>>], 0,
          [refs |-> <<>>, log |-> {}, reexp |-> FALSE], <<>>,
          [heap |-> mdl.heap, emitted |-> {}, exact |-> opts.exactOptionalPropertyTypes]).text

\* text is one pipeline call: "v.pipe", "(", ..., ")" with the last ")" closing the first "(".
IsPipeline(text) ==
    /\ Len(text) > 3 /\ text[1] = "v.pipe" /\ text[2] = "(" /\ text[Len(text)] = ")"
    /\ \A k \in 2..(Len(text) - 1) :
           Cardinality({i \in 2..k : text[i] = "("}) > Cardinality({i \in 2..k : text[i] = ")"})

\* The stages the target contributes: those of its pipeline, or itself.
TargetStages(text) == IF IsPipeline(text) THEN SubSeq(text, 3, Len(text) - 1) ELSE text

\* The text a call returns for the one Transform node of mdl when its pipeline is
\* source, transform stage, stages.
TransformOutput(mdl, source, stages) ==
    Format(Join(<<Preamble, <<>>,
                  NonRecursiveLines(mdl.heap[1],
                      TransformText(source, mdl.heap[1].transform[1].Encode, <<stages>>))>>,
                <<"\n">>))

\* The source stage of the returned text: what stands between the opening of the
\* first pipeline and the transform stage.
SourceStage(text) ==
    LET p == CHOOSE i \in 1..Len(text) : text[i] = "v.pipe" /\ \A j \in 1..(i - 1) : text[j] # "v.pipe"
        q == CHOOSE i \in 1..Len(text) :
                 text[i] = "v.transform" /\ \A j \in 1..(i - 1) : text[j] # "v.transform"
    IN SubSeq(text, p + 2, q - 2)

\* C5: the text of a Transform node is the pipeline of its source expression, the
\* transform stage with the encode function's text, and the target's expression:
\* spliced when that is a pipeline at its top level, unchanged otherwise.
C5_TargetPreserved ==
    pc = "returned" =>
        result.text = TransformOutput(model, SourceStage(result.text),
                                      TargetStages(TargetText(model, options)))

\* The position of the first tok in text, 0 when there is none.
Position(text, toks) ==
    IF \A i \in 1..Len(text) : text[i] \notin toks THEN 0
    ELSE CHOOSE i \in 1..Len(text) : text[i] \in toks /\ \A j \in 1..(i - 1) : text[j] \notin toks

Before(text, first, then) ==
    (Position(text, first) # 0 /\ Position(text, then) # 0) =>
        Position(text, first) < Position(text, then)

FormatCalls == {formatMap[f][1] : f \in DOMAIN formatMap}

\* The facets of the String node of a model reach the text.
FacetsEmitted(text, schema) ==
    /\ Position(text, {"v.maxLength"}) # 0 <=> IsDefined(schema.maxLength)
    /\ Position(text, {"v.minLength"}) # 0 <=> IsDefined(schema.minLength)
    /\ Position(text, {"v.regex"}) # 0 <=> schema.pattern # <<>>
    /\ Position(text, FormatCalls) # 0 <=> schema.format \in DOMAIN formatMap

\* C6 as stated: the maximum-length refinement precedes the minimum-length one and
\* every length refinement precedes the pattern and the format refinement.
C6_LengthFirst ==
    pc = "returned" =>
        /\ FacetsEmitted(result.text, model.heap[1])
        /\ Before(result.text, {"v.maxLength"}, {"v.minLength"})
        /\ Before(result.text, {"v.maxLength", "v.minLength"}, {"v.regex"})
        /\ Before(result.text, {"v.maxLength", "v.minLength"}, FormatCalls)

\* C6 amended: the format refinement (of a format of the table) comes first, then
\* the maximum-length, the minimum-length and the pattern refinement, for every
\* combination of the facets set or unset.
C6_FormatThenLengthThenPattern ==
    pc = "returned" =>
        /\ FacetsEmitted(result.text, model.heap[1])
        /\ Before(result.text, FormatCalls, {"v.maxLength", "v.minLength", "v.regex"})
        /\ Before(result.text, {"v.maxLength"}, {"v.minLength"})
        /\ Before(result.text, {"v.maxLength"}, {"v.regex"})
        /\ Before(result.text, {"v.minLength"}, {"v.regex"})

\* A String node with all four facets set was emitted.
C6_Witness ==
    /\ pc = "returned"
    /\ \A toks \in {{"v.maxLength"}, {"v.minLength"}, {"v.regex"}, FormatCalls} :
           Position(result.text, toks) # 0

\* The source shape the claim gives each outcome of Decode(1).
ClaimedSource(Decode) ==
    CASE Decode = "string" -> <<"v.string", "(", ")">>
      [] Decode = "array" -> <<"v.array", "(", "v.any", "(", ")", ")">>
      [] Decode = "mapping" -> <<"v.object", "(", "{", "}", ")">>
      [] Decode = "throws" -> Format(FailedDecode)
      [] OTHER -> <<"v.any", "(", ")">>

\* C7: the source stage of a Transform node is the shape of the value Decode(1)
\* returned: string, array, object, else any; and the sentinel when it raised.
C7_SourceShape ==
    pc = "returned" =>
        SourceStage(result.text) = ClaimedSource(model.heap[1].transform[1].Decode)

\* C8: when a unit is visited the reference table holds the name of every entry of
\* the model; a Ref to the name of an entry emits that name, and a Ref to a name
\* the table does not hold emits the unsupported sentinel; Ref never raises.
C8_RefResolution ==
    /\ trace.unit.visited => ModelNames(model) \subseteq trace.unit.names
    /\ \A e \in trace.unit.log :
           /\ e.ref \in ModelNames(model) => e.text = <<e.ref>>
           /\ ~e.had => e.text = UnsupportedType
    /\ pc = "raised" => result.error = "Unreachable"

\* The first unit held a Ref to the name of the entry that follows it.
C8_Witness ==
    /\ pc = "units" /\ index = 2 /\ Len(model.types) = 2
    /\ \E e \in trace.unit.log :
           /\ e.ref = model.heap[model.types[2]].id
           /\ e.ref # model.heap[model.types[1]].id
           /\ e.text = <<e.ref>>

\* C9: no node's body is entered while a visit of the same node is open, and no
\* call ends because the descent outgrew the call stack.
C9_DescentBounded ==
    /\ ~trace.unit.reexp
    /\ pc = "raised" => result.error # "RangeError"

\* C10: the recursive-name set is empty in every state, no unit takes the
\* recursive branch, and every unit is the unsupported sentinel or the
\* inferred-output type alias followed by a direct value declaration.
C10_NeverRecursive ==
    /\ recursive_set = {}
    /\ ~trace.unit.lazy
    /\ \A k \in 3..Len(buffer) :
           \/ buffer[k] = UnsupportedType
           \/ /\ \E n \in 1..Len(model.heap) : IsDeclarationUnit(buffer[k], model.heap[n].id)
              /\ \A i \in 1..Len(buffer[k]) : buffer[k][i] # "v.lazy"

\* A named unit was generated in a call entered with the state of an earlier call.
C10_Witness ==
    /\ pc = "units" /\ index > 1 /\ trace.dirty /\ trace.unit.visited
    /\ buffer[Len(buffer)] # UnsupportedType

====
